---- MODULE Spec2Model ----
(***************************************************************************)
(* APIAgent: the sequential pipeline plan -> fetch -> analyze -> explain   *)
(* -> advise of src/apia_agent.py with the two tools of src/tools.py.      *)
(*                                                                         *)
(* Representation of Python values.                                        *)
(*  - A dict is a function whose domain is the set of its keys; a key      *)
(*    that is not in the domain is a key the dict does not hold.           *)
(*  - A value whose Python type matters (it is tested for truth, converted *)
(*    by float()/int() or formatted) is a tagged record: Flt, Int, Str,    *)
(*    Bool, None.                                                          *)
(*  - A float is held in tenths (86.0 is Flt(860), 0.8 is 8); the model's  *)
(*    inputs have at most one decimal digit.  The comparisons against      *)
(*    past_avg * 1.3 and past_avg * 0.8 are made on exact rationals.       *)
(*  - In the three fixed texts the micro sign is written "u" and the dash  *)
(*    is written "-": the module is ASCII.                                 *)
(***************************************************************************)
EXTENDS Integers, Sequences, FiniteSets, TLC

VARIABLES
    pc,             \* position of main()
    tools,          \* names present in the agents' tool map
    searchMode,     \* behaviour of the object registered as "google_search"
    fileExists,     \* whether data/sample_data.csv exists
    csvRows,        \* its rows, in file order
    user_context,   \* the user context handed to the planner
    plan, dp, recent_series, analysis, explanation, advice,   \* locals of main()
    queries,        \* MemoryBank.storage["queries"]
    printed,        \* the response record printed, or NoValue
    steps,          \* the pipeline steps executed so far, in order
    arg, ret        \* argument and result of a single call (the per-function specifications)

vars == <<pc, tools, searchMode, fileExists, csvRows, user_context, plan, dp,
          recent_series, analysis, explanation, advice, queries, printed,
          steps, arg, ret>>

mainVars == <<pc, tools, searchMode, fileExists, csvRows, user_context, plan, dp,
              recent_series, analysis, explanation, advice, queries, printed, steps>>

-----------------------------------------------------------------------------
(* Bounds of the model *)
MaxRows == 2        \* rows in the CSV file
MaxHist == 2        \* rows of a history handed to analyze directly

-----------------------------------------------------------------------------
(* Python values *)
Flt(n)  == [t |-> "float", f |-> n]
Int_(n) == [t |-> "int", i |-> n]
Str(s)  == [t |-> "str", s |-> s]
Bool(b) == [t |-> "bool", b |-> b]
None    == [t |-> "None"]
NoValue == [t |-> "no value"]            \* a local not yet bound / nothing returned
EmptyDict == [k \in {} |-> None]

\* dict.get(k, default)
Get(d, k, default) == IF k \in DOMAIN d THEN d[k] ELSE default

\* d[k] = v
Put(d, k, v) == [x \in DOMAIN d \cup {k} |-> IF x = k THEN v ELSE d[x]]

\* bool(v)
Truthy(v) ==
    CASE v.t = "None"  -> FALSE
      [] v.t = "float" -> v.f # 0
      [] v.t = "int"   -> v.i # 0
      [] v.t = "str"   -> v.s # ""
      [] v.t = "bool"  -> v.b

-----------------------------------------------------------------------------
(* Strings *)
Chr(s, i) == SubSeq(s, i, i)

\* sub in s
Contains(sub, s) ==
    \E i \in 1..(Len(s) - Len(sub) + 1) : SubSeq(s, i, i + Len(sub) - 1) = sub

\* s.endswith(suffix)
EndsWith(s, suffix) ==
    /\ Len(suffix) <= Len(s)
    /\ SubSeq(s, Len(s) - Len(suffix) + 1, Len(s)) = suffix

Upper == <<"A","B","C","D","E","F","G","H","I","J","K","L","M",
           "N","O","P","Q","R","S","T","U","V","W","X","Y","Z">>
LowerL == <<"a","b","c","d","e","f","g","h","i","j","k","l","m",
            "n","o","p","q","r","s","t","u","v","w","x","y","z">>

LowerChar(c) ==
    IF \E i \in 1..26 : Upper[i] = c
    THEN LowerL[CHOOSE i \in 1..26 : Upper[i] = c]
    ELSE c

\* str.lower()
RECURSIVE Lower(_)
Lower(s) ==
    IF Len(s) <= 1 THEN LowerChar(s)
    ELSE Lower(SubSeq(s, 1, Len(s) \div 2)) \o Lower(SubSeq(s, Len(s) \div 2 + 1, Len(s)))

\* str.split()[0] of a string holding at least one non-blank character
RECURSIVE FirstToken(_)
FirstToken(s) ==
    IF s = "" THEN ""
    ELSE IF Chr(s, 1) = " " THEN FirstToken(SubSeq(s, 2, Len(s)))
    ELSE IF \E i \in 1..Len(s) : Chr(s, i) = " "
         THEN SubSeq(s, 1, (CHOOSE i \in 1..Len(s) :
                               /\ Chr(s, i) = " "
                               /\ \A j \in 1..(i - 1) : Chr(s, j) # " ") - 1)
         ELSE s

Digits == <<"0","1","2","3","4","5","6","7","8","9">>
IsDigit(c) == \E i \in 1..10 : Digits[i] = c
DigitVal(c) == (CHOOSE i \in 1..10 : Digits[i] = c) - 1
AllDigits(s) == s # "" /\ \A i \in 1..Len(s) : IsDigit(Chr(s, i))

RECURSIVE DigitsVal(_)
DigitsVal(s) ==
    IF s = "" THEN 0
    ELSE 10 * DigitsVal(SubSeq(s, 1, Len(s) - 1)) + DigitVal(Chr(s, Len(s)))

\* str(n) of an int n >= 0
RECURSIVE IntStr(_)
IntStr(n) == IF n < 10 THEN Digits[n + 1] ELSE IntStr(n \div 10) \o Digits[(n % 10) + 1]

\* str(x) of a float x >= 0 held in tenths: 860 -> "86.0"
FloatStr(n) == IntStr(n \div 10) \o "." \o Digits[(n % 10) + 1]

\* the text an f-string puts for a value
Format(v) ==
    CASE v.t = "None"  -> "None"
      [] v.t = "float" -> FloatStr(v.f)
      [] v.t = "int"   -> IntStr(v.i)
      [] v.t = "str"   -> v.s
      [] v.t = "bool"  -> IF v.b THEN "True" ELSE "False"

\* float(v): [ok |-> TRUE, f |-> tenths], or [ok |-> FALSE] when float() raises
\* (TypeError on None, ValueError on a string that is no number).  Strings are
\* read in the forms "ddd" and "ddd.d".
ToFloat(v) ==
    CASE v.t = "float" -> [ok |-> TRUE, f |-> v.f]
      [] v.t = "int"   -> [ok |-> TRUE, f |-> 10 * v.i]
      [] v.t = "bool"  -> [ok |-> TRUE, f |-> IF v.b THEN 10 ELSE 0]
      [] v.t = "None"  -> [ok |-> FALSE]
      [] v.t = "str"   ->
            IF AllDigits(v.s) THEN [ok |-> TRUE, f |-> 10 * DigitsVal(v.s)]
            ELSE IF /\ Len(v.s) >= 3
                    /\ Chr(v.s, Len(v.s) - 1) = "."
                    /\ AllDigits(SubSeq(v.s, 1, Len(v.s) - 2))
                    /\ IsDigit(Chr(v.s, Len(v.s)))
                 THEN [ok |-> TRUE,
                       f |-> 10 * DigitsVal(SubSeq(v.s, 1, Len(v.s) - 2))
                             + DigitVal(Chr(v.s, Len(v.s)))]
                 ELSE [ok |-> FALSE]

\* int(v): [ok |-> TRUE, i |-> n], or [ok |-> FALSE] when int() raises
ToInt(v) ==
    CASE v.t = "int"   -> [ok |-> TRUE, i |-> v.i]
      [] v.t = "float" -> [ok |-> TRUE, i |-> v.f \div 10]
      [] v.t = "bool"  -> [ok |-> TRUE, i |-> IF v.b THEN 1 ELSE 0]
      [] v.t = "None"  -> [ok |-> FALSE]
      [] v.t = "str"   -> IF AllDigits(v.s) THEN [ok |-> TRUE, i |-> DigitsVal(v.s)]
                          ELSE [ok |-> FALSE]

-----------------------------------------------------------------------------
(* Lists *)
List(q) == [t |-> "list", l |-> q]

\* q[-n:]
LastN(q, n) == IF Len(q) <= n THEN q ELSE SubSeq(q, Len(q) - n + 1, Len(q))

RECURSIVE SelectRows(_, _)
\* [r for r in rows if r.get("location", "").lower() == loc.lower()]
SelectRows(rows, loc) ==
    IF rows = <<>> THEN <<>>
    ELSE IF Lower(Get(Head(rows), "location", Str("")).s) = Lower(loc)
         THEN <<Head(rows)>> \o SelectRows(Tail(rows), loc)
         ELSE SelectRows(Tail(rows), loc)

-----------------------------------------------------------------------------
(* src/tools.py *)
NowIso  == "utcnow"         \* datetime.utcnow().isoformat(); the clock is not modelled
CsvPath == "data/sample_data.csv"

\* GoogleSearchTool.run(query)
GoogleSearchTool_run(query) ==
    [query          |-> Str(query),
     timestamp      |-> Str(NowIso),
     result_snippet |-> Str("AQI " \o FirstToken(query)
                            \o ": 128 (Unhealthy for sensitive groups). PM2.5: 86 ug/m3. Source: example.com"),
     raw_html       |-> Str("<html>...</html>")]

\* The object registered under "google_search" is the stub above, or the search
\* tool that replaces it: one that raises, one whose snippet names PM2.5 but not
\* 86 and carries no timestamp, one whose snippet names no PM2.5, and one whose
\* result holds no snippet.
SearchModes == {"stub", "raises", "other_reading", "no_reading", "no_snippet"}

SearchTool_run(query) ==
    CASE searchMode = "stub"          -> [raised |-> FALSE, value |-> GoogleSearchTool_run(query)]
      [] searchMode = "raises"        -> [raised |-> TRUE, value |-> NoValue]
      [] searchMode = "other_reading" ->
            [raised |-> FALSE,
             value |-> [query |-> Str(query), result_snippet |-> Str("pm2.5 now 40 ug/m3")]]
      [] searchMode = "no_reading"    ->
            [raised |-> FALSE,
             value |-> [query |-> Str(query), timestamp |-> Str(NowIso),
                        result_snippet |-> Str("No results for 86 Main Street")]]
      [] searchMode = "no_snippet"    ->
            [raised |-> FALSE, value |-> [query |-> Str(query), timestamp |-> Str(NowIso)]]

RECURSIVE LatestRow_keeps_first(_, _, _)
\* LatestRow that stops assigning once a row has matched
LatestRow_keeps_first(rows, location, latest) ==
    IF rows = <<>> THEN latest
    ELSE LatestRow_keeps_first(Tail(rows), location,
                   IF /\ latest = None
                      /\ Lower(Get(Head(rows), "location", Str("")).s) = Lower(location)
                   THEN Head(rows) ELSE latest)

RECURSIVE LatestRow(_, _, _)
\* the loop of CSVLoaderTool.run: latest after reading rows, starting from `latest`
LatestRow(rows, location, latest) ==
    IF rows = <<>> THEN latest
    ELSE LatestRow(Tail(rows), location,
                   IF Lower(Get(Head(rows), "location", Str("")).s) = Lower(location)
                   THEN Head(rows) ELSE latest)

\* CSVLoaderTool.run(location)
CSVLoaderTool_run(location) ==
    IF ~fileExists
    THEN [error |-> Str("sample data missing"), path |-> Str(CsvPath)]
    ELSE LET latest == LatestRow(csvRows, location, None)
         IN  IF latest # None /\ DOMAIN latest # {}
             THEN latest
             ELSE [error |-> Str("no data for location")]

-----------------------------------------------------------------------------
(* src/apia_agent.py *)

\* Agent.call_tool(tool_name, a): the value tool.run returns, or raised; `runs`
\* lists the tools whose run was entered, with their argument.
call_tool(tool_name, a) ==
    IF tool_name \notin tools
    THEN [raised |-> TRUE, value |-> NoValue, runs |-> <<>>]
    ELSE IF tool_name = "google_search"
         THEN LET r == SearchTool_run(a)
              IN  [raised |-> r.raised, value |-> r.value,
                   runs |-> <<[tool |-> tool_name, arg |-> a]>>]
         ELSE [raised |-> FALSE, value |-> CSVLoaderTool_run(a),
               runs |-> <<[tool |-> tool_name, arg |-> a]>>]

\* parse_search_snippet that looks for "pm2.5" in the snippet as written only
parse_search_snippet_as_written(snippet) ==
    IF snippet.t # "str" THEN EmptyDict
    ELSE IF Contains("pm2.5", snippet.s)
         THEN IF Contains("86", snippet.s)
              THEN [pm25 |-> Flt(860), pm10 |-> Flt(1500), aqi |-> Int_(128)]
              ELSE [pm25 |-> Flt(550), pm10 |-> Flt(900), aqi |-> Int_(80)]
         ELSE EmptyDict

\* parse_search_snippet(snippet)
parse_search_snippet(snippet) ==
    IF snippet.t # "str" THEN EmptyDict            \* .lower() raises: except -> {}
    ELSE IF Contains("pm2.5", Lower(snippet.s)) \/ Contains("pm2.5", snippet.s)
         THEN IF Contains("86", snippet.s)
              THEN [pm25 |-> Flt(860), pm10 |-> Flt(1500), aqi |-> Int_(128)]
              ELSE [pm25 |-> Flt(550), pm10 |-> Flt(900), aqi |-> Int_(80)]
         ELSE EmptyDict

\* PlannerAgent.handle(user_text, user_context)
handle(user_text, ctx) ==
    [action |-> Str("fetch_data"), location |-> Get(ctx, "location", Str("Chennai"))]

\* the fallback branch of DataAgent.fetch, lines 55-64
fetch_fallback(location, runsBefore) ==
    LET c == call_tool("csv_loader", location)
        csv_res == c.value
        runs == runsBefore \o c.runs
        Raised == [raised |-> TRUE, value |-> NoValue, runs |-> runs]
    IN  IF c.raised THEN Raised
        ELSE IF Truthy(Get(csv_res, "error", None))
        THEN [raised |-> FALSE, value |-> [error |-> Str("no data available")], runs |-> runs]
        ELSE IF "pm25" \notin DOMAIN csv_res \/ "pm10" \notin DOMAIN csv_res
        THEN Raised                                            \* KeyError
        ELSE LET p25 == ToFloat(csv_res["pm25"])
                 p10 == ToFloat(csv_res["pm10"])
                 aq  == ToInt(Get(csv_res, "aqi", Int_(-1)))
             IN  IF ~p25.ok \/ ~p10.ok \/ ~aq.ok
                 THEN Raised                                   \* ValueError, TypeError
                 ELSE [raised |-> FALSE,
                       value |-> [pm25 |-> Flt(p25.f),
                                  pm10 |-> Flt(p10.f),
                                  aqi |-> Int_(aq.i),
                                  timestamp |-> Get(csv_res, "date", None),
                                  source |-> Str("sample_csv")],
                       runs |-> runs]

\* DataAgent.fetch(location)
fetch(location) ==
    LET g == call_tool("google_search", location \o " AQI today")
        parsed == IF g.raised THEN EmptyDict
                  ELSE parse_search_snippet(Get(g.value, "result_snippet", Str("")))
        ts == IF g.raised THEN None ELSE Get(g.value, "timestamp", None)
    IN  IF ~g.raised /\ DOMAIN parsed # {}
        THEN [raised |-> FALSE,
              value |-> Put(Put(parsed, "source", Str("google_search")),
                            "timestamp", IF Truthy(ts) THEN ts ELSE Str(NowIso)),
              runs |-> g.runs]
        ELSE fetch_fallback(location, g.runs)

-----------------------------------------------------------------------------
(* AnalysisAgent.analyze *)

\* the rows the comprehension of line 72 keeps: x.get("pm25") != ''
KeptRows(series) == SelectSeq(series, LAMBDA x : Get(x, "pm25", None) # Str(""))

\* float(x.get("pm25", 0)) of each kept row
PastVals(series) ==
    [i \in 1..Len(KeptRows(series)) |-> ToFloat(Get(KeptRows(series)[i], "pm25", Int_(0)))]

RECURSIVE SumF(_)
SumF(q) == IF q = <<>> THEN 0 ELSE Head(q).f + SumF(Tail(q))

\* classify with "falling" tested against past_avg * 1.3 too
classify_wrong_factor(today_pm, total, n) ==
    IF total > 0
    THEN [trend |-> IF 10 * today_pm * n > 13 * total THEN Str("rising")
                    ELSE IF 10 * today_pm * n < 13 * total THEN Str("falling")
                    ELSE Str("stable"),
          anomaly |-> Bool(10 * today_pm * n > 13 * total),
          confidence |-> Flt(9)]
    ELSE [trend |-> Str("stable"), anomaly |-> Bool(FALSE), confidence |-> Flt(8)]

\* classify with the confidence raised outside the test past_avg > 0
classify_always_raises(today_pm, total, n) ==
    IF total > 0
    THEN [trend |-> IF 10 * today_pm * n > 13 * total THEN Str("rising")
                    ELSE IF 10 * today_pm * n < 8 * total THEN Str("falling")
                    ELSE Str("stable"),
          anomaly |-> Bool(10 * today_pm * n > 13 * total),
          confidence |-> Flt(9)]
    ELSE [trend |-> Str("stable"), anomaly |-> Bool(FALSE), confidence |-> Flt(9)]

\* the comparison of lines 75-82, with past_avg = total / n; values in tenths
classify(today_pm, total, n) ==
    IF total > 0                                     \* past_avg > 0
    THEN [trend |-> IF 10 * today_pm * n > 13 * total THEN Str("rising")
                    ELSE IF 10 * today_pm * n < 8 * total THEN Str("falling")
                    ELSE Str("stable"),
          anomaly |-> Bool(10 * today_pm * n > 13 * total),
          confidence |-> Flt(9)]
    ELSE [trend |-> Str("stable"), anomaly |-> Bool(FALSE), confidence |-> Flt(8)]

\* AnalysisAgent.analyze(datapoint, recent_series)
analyze(datapoint, series) ==
    LET today == ToFloat(Get(datapoint, "pm25", Int_(0)))
        default == [trend |-> Str("stable"), anomaly |-> Bool(FALSE), confidence |-> Flt(8)]
        failed == [error |-> Str("analysis_error")]
    IN  IF ~today.ok THEN failed
        ELSE IF series = None \/ series.l = <<>> THEN default
        ELSE LET past_vals == PastVals(series.l)
             IN  IF \E i \in 1..Len(past_vals) : ~past_vals[i].ok THEN failed
                 ELSE IF Len(past_vals) = 0 THEN default
                 ELSE classify(today.f, SumF(past_vals), Len(past_vals))

-----------------------------------------------------------------------------
(* ExplanationAgent.explain *)
PoorText     == "Air quality is poor - avoid strenuous outdoor activity. If you have respiratory issues, use a mask."
ModerateText == "Air quality is moderate; normal activities are OK."
UnableText   == "Unable to fully assess air quality."

\* assessment with >= in place of >
assessment_at_least(pm25) ==
    IF ~Truthy(pm25) THEN ModerateText
    ELSE IF ~ToFloat(pm25).ok THEN UnableText
    ELSE IF ToFloat(pm25).f >= 1000 THEN PoorText
    ELSE ModerateText

\* the text lines 93-99 append
assessment(pm25) ==
    IF ~Truthy(pm25) THEN ModerateText
    ELSE IF ~ToFloat(pm25).ok THEN UnableText
    ELSE IF ToFloat(pm25).f > 1000 THEN PoorText
    ELSE ModerateText

\* ExplanationAgent.explain(datapoint, analysis)
explain(datapoint, an) ==
    LET pm25 == Get(datapoint, "pm25", None)
        trend == Get(an, "trend", None)
    IN  [summary |-> Str("Current PM2.5 is " \o Format(pm25) \o " ug/m3. Trend: "
                         \o Format(trend) \o ". " \o assessment(pm25)),
         confidence |-> Get(an, "confidence", Flt(7))]

-----------------------------------------------------------------------------
(* AdvisoryAgent.advise *)
AvoidExercise == "Avoid outdoor exercise today."
UseMask       == "Use N95 mask if you must go out."
GoodDay       == "Good day for outdoor activities."
CarryInhaler  == "Carry inhaler and avoid crowded roads."

\* has_keyword that scans for "poor" alone
has_keyword_poor_only(s) == Contains("poor", Lower(s))

\* any(w in s.lower() for w in ["poor", "avoid"])
has_keyword(s) == Contains("poor", Lower(s)) \/ Contains("avoid", Lower(s))

\* user_prefs and user_prefs.get("asthma")
wants_asthma(user_prefs) ==
    /\ user_prefs # None
    /\ DOMAIN user_prefs # {}
    /\ Truthy(Get(user_prefs, "asthma", None))

\* AdvisoryAgent.advise(explanation, user_prefs)
advise(expl, user_prefs) ==
    LET s == Get(expl, "summary", Str("")).s
        general == IF has_keyword(s) THEN <<AvoidExercise, UseMask>> ELSE <<GoodDay>>
    IN  [advice |-> IF wants_asthma(user_prefs) THEN Append(general, CarryInhaler)
                    ELSE general]

-----------------------------------------------------------------------------
(* The inputs *)
ToolNames == {"google_search", "csv_loader"}

Row(loc, pm25, pm10, aqi, date) ==
    [location |-> Str(loc), pm25 |-> Str(pm25), pm10 |-> Str(pm10),
     aqi |-> Str(aqi), date |-> Str(date)]

\* Rows of the CSV file: csv.DictReader gives every cell as a string.  The last
\* one is a row of a file that has no aqi column.
CsvRowSet ==
    { Row("Chennai", "120", "180", "160", "2025-01-01"),
      Row("chennai", "60", "90", "75", "2025-01-02"),
      Row("Delhi", "85.5", "150", "140", "2025-01-03"),
      Row("CHENNAI", "n/a", "n/a", "n/a", "2025-01-04"),
      Row("Chennai", "", "", "", "2025-01-05"),
      [location |-> Str("Delhi"), pm25 |-> Str("30"), pm10 |-> Str("50"),
       date |-> Str("2025-01-06")] }

SeqsUpTo(S, n) == UNION { [1..k -> S] : k \in 0..n }

Files == SeqsUpTo(CsvRowSet, MaxRows)

UserText == "What's Chennai AQI right now and can I run at 6am?"

\* main() fixes the user context to Chennai without asthma ("User input
\* simulation"); the simulated input ranges over two locations and both flags.
Contexts ==
    { [location |-> Str(loc), user_id |-> Str("dharshaa"),
       preferences |-> [asthma |-> Bool(a)]] : loc \in {"Chennai", "Delhi"}, a \in BOOLEAN }

-----------------------------------------------------------------------------
(* main() *)
HistoryWindow == 7
Pipeline == <<"plan", "fetch", "analyze", "explain", "advise">>

LocalsUnbound ==
    /\ plan = NoValue /\ dp = NoValue /\ recent_series = NoValue
    /\ analysis = NoValue /\ explanation = NoValue /\ advice = NoValue
    /\ queries = <<>> /\ printed = NoValue /\ steps = <<>>

Init ==
    /\ pc = "start"
    /\ tools = ToolNames
    /\ searchMode \in SearchModes
    /\ fileExists \in BOOLEAN
    /\ csvRows \in IF fileExists THEN Files ELSE {<<>>}
    /\ user_context \in Contexts
    /\ LocalsUnbound
    /\ arg = NoValue /\ ret = NoValue

envVars == <<tools, searchMode, fileExists, csvRows, user_context>>

\* fetch_failed that tests for the empty record alone
fetch_failed_empty_only(d) == DOMAIN d = {}

\* not dp or dp.get("error")
fetch_failed(d) == DOMAIN d = {} \/ Truthy(Get(d, "error", None))

\* lines 178-179
Plan ==
    /\ pc = "start"
    /\ plan' = handle(UserText, user_context)
    /\ queries' = Append(queries, [user_text |-> Str(UserText), time |-> Str("time.time"),
                                   location |-> user_context["location"]])
    /\ steps' = Append(steps, "plan")
    /\ pc' = "fetch"
    /\ UNCHANGED <<envVars, dp, recent_series, analysis, explanation, advice, printed, arg, ret>>

\* lines 182-185
Fetch ==
    /\ pc = "fetch"
    /\ LET r == fetch(plan["location"].s)
       IN  /\ dp' = IF r.raised THEN dp ELSE r.value
           /\ pc' = IF r.raised THEN "raised"
                    ELSE IF fetch_failed(r.value) THEN "aborted" ELSE "history"
    /\ steps' = Append(steps, "fetch")
    /\ UNCHANGED <<envVars, plan, recent_series, analysis, explanation, advice, queries,
                   printed, arg, ret>>

\* lines 188-195
LoadHistory ==
    /\ pc = "history"
    /\ recent_series' = IF ~fileExists THEN None
                        ELSE List(LastN(SelectRows(csvRows, plan["location"].s), HistoryWindow))
    /\ pc' = "analyze"
    /\ UNCHANGED <<envVars, plan, dp, analysis, explanation, advice, queries, printed,
                   steps, arg, ret>>

\* line 197
Analyze ==
    /\ pc = "analyze"
    /\ analysis' = analyze(dp, recent_series)
    /\ steps' = Append(steps, "analyze")
    /\ pc' = "explain"
    /\ UNCHANGED <<envVars, plan, dp, recent_series, explanation, advice, queries, printed,
                   arg, ret>>

\* line 198
Explain ==
    /\ pc = "explain"
    /\ explanation' = explain(dp, analysis)
    /\ steps' = Append(steps, "explain")
    /\ pc' = "advise"
    /\ UNCHANGED <<envVars, plan, dp, recent_series, analysis, advice, queries, printed,
                   arg, ret>>

\* line 199
Advise ==
    /\ pc = "advise"
    /\ advice' = advise(explanation, user_context["preferences"])
    /\ steps' = Append(steps, "advise")
    /\ pc' = "respond"
    /\ UNCHANGED <<envVars, plan, dp, recent_series, analysis, explanation, queries, printed,
                   arg, ret>>

\* lines 201-211
Respond ==
    /\ pc = "respond"
    /\ queries' = Append(queries, [location |-> plan["location"], data |-> dp,
                                   analysis |-> analysis, time |-> Str("time.time")])
    /\ printed' = [location |-> plan["location"], data |-> dp, analysis |-> analysis,
                   explanation |-> explanation, advice |-> advice]
    /\ pc' = "done"
    /\ UNCHANGED <<envVars, plan, dp, recent_series, analysis, explanation, advice, steps,
                   arg, ret>>

Next == Plan \/ Fetch \/ LoadHistory \/ Analyze \/ Explain \/ Advise \/ Respond

Spec == Init /\ [][Next]_vars

-----------------------------------------------------------------------------
(* Single calls.  Each specification below draws the arguments of one          *)
(* function (and the environment it reads) in its initial state and applies    *)
(* the function once: pc goes from "call" to "returned" and ret holds what     *)
(* the call returned.                                                          *)

NotInMain ==
    /\ pc = "call"
    /\ user_context = NoValue
    /\ LocalsUnbound
    /\ ret = NoValue

Returns(value) ==
    /\ pc = "call"
    /\ pc' = "returned"
    /\ ret' = value
    /\ UNCHANGED <<envVars, plan, dp, recent_series, analysis, explanation, advice,
                   queries, printed, steps, arg>>

Called == pc = "returned"

(* DataAgent.fetch and Agent.call_tool, over every tool map, search behaviour, *)
(* file and location.                                                          *)
FetchLocations == {"Chennai", "chennai", "Delhi", "Mumbai"}

InitFetch ==
    /\ NotInMain
    /\ tools \in SUBSET ToolNames
    /\ searchMode \in SearchModes
    /\ fileExists \in BOOLEAN
    /\ csvRows \in IF fileExists THEN Files ELSE {<<>>}
    /\ arg \in [op : {"fetch"}, location : FetchLocations]
            \cup [op : {"call_tool"}, tool_name : ToolNames \cup {"weather"},
                  a : {"Chennai"}]

FetchCall == arg.op = "fetch" /\ Returns(fetch(arg.location))

CallToolCall == arg.op = "call_tool" /\ Returns(call_tool(arg.tool_name, arg.a))

NextFetch == FetchCall \/ CallToolCall

SpecFetch == InitFetch /\ [][NextFetch]_vars

(* CSVLoaderTool.run, over every file and location. *)
InitCsv ==
    /\ NotInMain
    /\ tools = ToolNames
    /\ searchMode = "stub"
    /\ fileExists \in BOOLEAN
    /\ csvRows \in IF fileExists THEN Files ELSE {<<>>}
    /\ arg \in [location : FetchLocations \cup {"CHENNAI", "delhi"}]

CsvCall == Returns(CSVLoaderTool_run(arg.location))

NextCsv == CsvCall

SpecCsv == InitCsv /\ [][NextCsv]_vars

NoEnv ==
    /\ tools = ToolNames
    /\ searchMode = "stub"
    /\ fileExists = FALSE
    /\ csvRows = <<>>

(* AnalysisAgent.analyze, over readings and histories. *)
TodayValues ==
    { Flt(0), Flt(600), Flt(790), Flt(800), Flt(975), Flt(1000), Flt(1300), Flt(1310),
      Str("n/a"), None }

AnalyzeReadings ==
    { [pm25 |-> v, source |-> Str("sample_csv")] : v \in TodayValues }
    \cup { [source |-> Str("sample_csv")] }

\* rows of a history: numeric, zero, empty, not a number, None (the cell of a
\* short row read by csv.DictReader), and a row with no pm25
HistoryRows ==
    { [location |-> Str("Chennai"), pm25 |-> Str("100")],
      [location |-> Str("Chennai"), pm25 |-> Str("50")],
      [location |-> Str("Chennai"), pm25 |-> Str("0")],
      [location |-> Str("Chennai"), pm25 |-> Str("")],
      [location |-> Str("Chennai"), pm25 |-> Str("n/a")],
      [location |-> Str("Chennai"), pm25 |-> None],
      [location |-> Str("Chennai")] }

Histories == { None } \cup { List(q) : q \in SeqsUpTo(HistoryRows, MaxHist) }

InitAnalyze ==
    /\ NotInMain
    /\ NoEnv
    /\ arg \in [datapoint : AnalyzeReadings, recent_series : Histories]

AnalyzeCall == Returns(analyze(arg.datapoint, arg.recent_series))

NextAnalyze == AnalyzeCall

SpecAnalyze == InitAnalyze /\ [][NextAnalyze]_vars

(* ExplanationAgent.explain, over readings and analyses. *)
ExplainValues ==
    { Flt(1500), Flt(500), Flt(1000), Flt(1001), Flt(0), Int_(101), Int_(0), None,
      Str("150"), Str("99.9"), Str("n/a"), Str(""), Bool(TRUE) }

ExplainReadings ==
    { [pm25 |-> v] : v \in ExplainValues } \cup { [error |-> Str("no data available")] }

Analyses ==
    { [trend |-> Str(tr), anomaly |-> Bool(tr = "rising"), confidence |-> Flt(c)] :
        tr \in {"stable", "rising", "falling"}, c \in {8, 9} }
    \cup { [error |-> Str("analysis_error")], [trend |-> Str("stable")] }

InitExplain ==
    /\ NotInMain
    /\ NoEnv
    /\ arg \in [datapoint : ExplainReadings, analysis : Analyses]

ExplainCall == Returns(explain(arg.datapoint, arg.analysis))

NextExplain == ExplainCall

SpecExplain == InitExplain /\ [][NextExplain]_vars

(* AdvisoryAgent.advise, over explanations and preferences. *)
Summaries ==
    { explain([pm25 |-> v], [trend |-> Str("stable")])["summary"].s :
        v \in {Flt(1500), Flt(500), Str("n/a")} }
    \cup { "", "POOR visibility", "Unavoidable delay", "Trend: rising.", "po or a void" }

Explanations ==
    { [summary |-> Str(t), confidence |-> Flt(8)] : t \in Summaries }
    \cup { [confidence |-> Flt(8)] }

Preferences ==
    { None, EmptyDict, [pollen |-> Bool(TRUE)] }
    \cup { [asthma |-> v] : v \in {Bool(TRUE), Bool(FALSE), None, Str("yes"), Str(""), Int_(0)} }

InitAdvise ==
    /\ NotInMain
    /\ NoEnv
    /\ arg \in [explanation : Explanations, user_prefs : Preferences]

AdviseCall == Returns(advise(arg.explanation, arg.user_prefs))

NextAdvise == AdviseCall

SpecAdvise == InitAdvise /\ [][NextAdvise]_vars

-----------------------------------------------------------------------------
(* Properties *)

Max(S) == CHOOSE x \in S : \A y \in S : y <= x

\* indexes of the rows of the file whose location is the requested one, ignoring case
Matches ==
    { i \in 1..Len(csvRows) : Lower(csvRows[i]["location"].s) = Lower(arg.location) }

\* C5: CSVLoaderTool.run returns the last row in file order whose location equals
\* the requested one ignoring case; it returns a record with an "error" key if
\* and only if the file is missing or no row matches.
C5_CsvLastMatchWins ==
    Called =>
        IF ~fileExists \/ Matches = {}
        THEN "error" \in DOMAIN ret
        ELSE /\ "error" \notin DOMAIN ret
             /\ ret = csvRows[Max(Matches)]

\* a file with two different matching rows, the later one matching only when
\* case is ignored, and the later one returned
C5_Witness ==
    /\ Called /\ fileExists
    /\ Matches = {1, 2}
    /\ csvRows[1] # csvRows[2]
    /\ csvRows[2]["location"].s # arg.location
    /\ ret = csvRows[2]

\* C6: advise returns the two outdoor-avoidance warnings when the summary holds
\* "poor" or "avoid" in any case and the single positive message otherwise,
\* followed by the inhaler warning, last, if and only if the "asthma"
\* preference is truthy; the list has 1, 2 or 3 elements.
C6_AdviceList ==
    Called =>
        LET s == Lower(Get(arg.explanation, "summary", Str("")).s)
            kw == Contains("poor", s) \/ Contains("avoid", s)
            prefs == arg.user_prefs
            asthma == /\ prefs # None
                      /\ "asthma" \in DOMAIN prefs
                      /\ Truthy(prefs["asthma"])
            adv == ret["advice"]
        IN  /\ Len(adv) = (IF kw THEN 2 ELSE 1) + (IF asthma THEN 1 ELSE 0)
            /\ kw => adv[1] = AvoidExercise /\ adv[2] = UseMask
            /\ ~kw => adv[1] = GoodDay
            /\ asthma <=> adv[Len(adv)] = CarryInhaler
            /\ \A i \in 1..Len(adv) : adv[i] = CarryInhaler => i = Len(adv)
            /\ Len(adv) = 3 <=> (kw /\ asthma)

\* a summary found by "avoid" alone, in another case, with a truthy asthma flag
C6_Witness ==
    /\ Called
    /\ arg.explanation = [summary |-> Str("Unavoidable delay"), confidence |-> Flt(8)]
    /\ arg.user_prefs = [asthma |-> Str("yes")]
    /\ ret["advice"] = <<AvoidExercise, UseMask, CarryInhaler>>

\* C7: the summary of explain ends with exactly one of the three fixed texts:
\* the poor warning when pm25 converts to a number greater than 100, the
\* "Unable" text when the conversion of pm25 fails, and the moderate text in
\* every other case (pm25 <= 100, 0, empty or absent); explain returns a value.
C7_ExplainEnding ==
    Called =>
        LET pm25 == Get(arg.datapoint, "pm25", None)
            converted == Truthy(pm25)            \* float(pm25) is evaluated
            s == ret["summary"].s
            ends == { t \in {PoorText, ModerateText, UnableText} : EndsWith(s, t) }
        IN  /\ ret # NoValue
            /\ Cardinality(ends) = 1
            /\ PoorText \in ends <=> (converted /\ ToFloat(pm25).ok /\ ToFloat(pm25).f > 1000)
            /\ UnableText \in ends <=> (converted /\ ~ToFloat(pm25).ok)

\* pm25 = 100 exactly gives the moderate text
C7_Witness ==
    /\ Called
    /\ "pm25" \in DOMAIN arg.datapoint
    /\ arg.datapoint["pm25"] = Flt(1000)
    /\ EndsWith(ret["summary"].s, ModerateText)

-----------------------------------------------------------------------------
(* Properties of analyze *)

Stable08 == [trend |-> Str("stable"), anomaly |-> Bool(FALSE), confidence |-> Flt(8)]
AnalysisError == [error |-> Str("analysis_error")]

\* today's pm25 as analyze reads it, and whether it is a number
TodayPm == Get(arg.datapoint, "pm25", Int_(0))
TodayNumeric == ToFloat(TodayPm).ok

HistoryGiven == arg.recent_series # None /\ arg.recent_series.l # <<>>
HistoryRowsOf == IF arg.recent_series = None THEN <<>> ELSE arg.recent_series.l

HasPm(x) == "pm25" \in DOMAIN x
NumericRow(x) == HasPm(x) /\ x["pm25"].t = "str" /\ ToFloat(x["pm25"]).ok

\* sum, in tenths, of the pm25 of rows that are all numeric
RECURSIVE SumPm(_)
SumPm(q) == IF q = <<>> THEN 0 ELSE ToFloat(Head(q)["pm25"]).f + SumPm(Tail(q))

\* C3: with a numeric pm25 T and a non-empty history whose pm25 values are all
\* numeric with mean M > 0, analyze returns "rising" with anomaly true exactly
\* when T > 1.3 M, "falling" with anomaly false exactly when T < 0.8 M, and
\* "stable" with anomaly false otherwise; anomaly is true iff the trend is
\* "rising".  (T > 1.3 M is 10 T n > 13 S for n values of sum S.)
C3_TrendThresholds ==
    (/\ Called /\ TodayNumeric /\ HistoryGiven
     /\ \A i \in 1..Len(HistoryRowsOf) : NumericRow(HistoryRowsOf[i])
     /\ SumPm(HistoryRowsOf) > 0)
    =>
        LET T == ToFloat(TodayPm).f
            n == Len(HistoryRowsOf)
            S == SumPm(HistoryRowsOf)
            trend == Get(ret, "trend", None)
            anomaly == Get(ret, "anomaly", None)
        IN  /\ trend \in {Str("rising"), Str("falling"), Str("stable")}
            /\ trend = Str("rising") <=> 10 * T * n > 13 * S
            /\ trend = Str("falling") <=> 10 * T * n < 8 * S
            /\ anomaly = Bool(trend = Str("rising"))

\* the three outcomes, the stable one on the boundary T = 1.3 M
C3_Witness ==
    /\ Called
    /\ arg.recent_series = List(<<[location |-> Str("Chennai"), pm25 |-> Str("100")],
                                  [location |-> Str("Chennai"), pm25 |-> Str("50")]>>)
    /\ HasPm(arg.datapoint)
    /\ arg.datapoint["pm25"] = Flt(975)
    /\ ret = [trend |-> Str("stable"), anomaly |-> Bool(FALSE), confidence |-> Flt(9)]

\* C4 as stated: with an empty or absent history the result is stable, not an
\* anomaly, confidence 0.8; whenever a non-empty history is supplied the returned
\* confidence is 0.9.  (Stated for readings whose pm25 is a number and histories
\* whose rows all hold a pm25 that is a number or the empty string.)
C4_Original ==
    (/\ Called /\ TodayNumeric
     /\ \A i \in 1..Len(HistoryRowsOf) :
            \/ NumericRow(HistoryRowsOf[i])
            \/ HasPm(HistoryRowsOf[i]) /\ HistoryRowsOf[i]["pm25"] = Str(""))
    =>
        /\ ~HistoryGiven => ret = Stable08
        /\ HistoryGiven => Get(ret, "confidence", None) = Flt(9)

\* the rows analyze converts: those whose pm25 is not the empty string
Converted == SelectSeq(HistoryRowsOf, LAMBDA x : ~(HasPm(x) /\ x["pm25"] = Str("")))
ConvertedValue(x) == IF HasPm(x) THEN x["pm25"] ELSE Int_(0)
RECURSIVE SumConverted(_)
SumConverted(q) ==
    IF q = <<>> THEN 0 ELSE ToFloat(ConvertedValue(Head(q))).f + SumConverted(Tail(q))

\* C4 amended: for a reading whose pm25 is a number, an empty or absent history
\* gives stable / no anomaly / 0.8; a non-empty history gives confidence 0.9
\* exactly when at least one of its rows has a pm25 other than the empty string,
\* every such row converts to a number (a row without pm25 counting as 0) and
\* their mean is above 0; it gives stable / no anomaly / 0.8 when no row is left
\* or the mean is 0, and the analysis error when such a row does not convert.
\* A reading whose pm25 is not a number gives the analysis error.
C4_ConfidenceWhenCompared ==
    Called =>
        LET allConvert == \A i \in 1..Len(Converted) :
                              ToFloat(ConvertedValue(Converted[i])).ok
        IN  IF ~TodayNumeric THEN ret = AnalysisError
            ELSE IF ~HistoryGiven THEN ret = Stable08
            ELSE IF ~allConvert THEN ret = AnalysisError
            ELSE IF Converted # <<>> /\ SumConverted(Converted) > 0
                 THEN Get(ret, "confidence", None) = Flt(9)
                 ELSE ret = Stable08

\* a history was supplied, none of its rows has a value, and the confidence is 0.8
C4_Witness ==
    /\ Called /\ TodayNumeric /\ HistoryGiven
    /\ \A i \in 1..Len(HistoryRowsOf) :
           HasPm(HistoryRowsOf[i]) /\ HistoryRowsOf[i]["pm25"] = Str("")
    /\ ret = Stable08

\* the history with row x put in front of position i (i = Len + 1: at the end)
InsertAt(q, i, x) == SubSeq(q, 1, i - 1) \o <<x>> \o SubSeq(q, i, Len(q))

RowEmptyPm == [location |-> Str("Chennai"), pm25 |-> Str("")]
RowNoPm    == [location |-> Str("Chennai")]

\* C10: with a non-empty history, rows with an empty pm25 or with no pm25 field
\* are skipped: adding such a row anywhere changes neither trend, anomaly nor
\* confidence and never turns the result into the analysis error.
C10_SkippedRowsChangeNothing ==
    (Called /\ HistoryGiven) =>
        \A x \in {RowEmptyPm, RowNoPm} :
            \A i \in 1..(Len(HistoryRowsOf) + 1) :
                analyze(arg.datapoint, List(InsertAt(HistoryRowsOf, i, x))) = ret

-----------------------------------------------------------------------------
(* Properties of fetch and call_tool *)

RunsOf(tool) == SelectSeq(ret.runs, LAMBDA r : r.tool = tool)

\* the search adapter returned without raising and the parser gave a non-empty mapping
SearchSucceeds(location) ==
    LET r == SearchTool_run(location \o " AQI today")
    IN  /\ ~r.raised
        /\ DOMAIN parse_search_snippet(Get(r.value, "result_snippet", Str(""))) # {}

\* C1: with both adapters registered, fetch returns a reading tagged
\* "google_search" exactly when the search adapter returned without raising and
\* the parser gave a non-empty mapping, and then the CSV adapter is not called;
\* in every other case the CSV adapter is called exactly once with the same
\* location and the result is {"error": "no data available"} iff the CSV result
\* carries an error, otherwise a reading tagged "sample_csv" built from the row.
C1_FetchWithFallback ==
    (Called /\ arg.op = "fetch" /\ tools = ToolNames) =>
        IF SearchSucceeds(arg.location)
        THEN /\ ~ret.raised
             /\ Get(ret.value, "source", None) = Str("google_search")
             /\ RunsOf("csv_loader") = <<>>
        ELSE LET csv_res == CSVLoaderTool_run(arg.location)
             IN  /\ RunsOf("csv_loader") = <<[tool |-> "csv_loader", arg |-> arg.location]>>
                 /\ IF Truthy(Get(csv_res, "error", None))
                    THEN ~ret.raised /\ ret.value = [error |-> Str("no data available")]
                    ELSE /\ ~ret.raised
                         /\ Get(ret.value, "source", None) = Str("sample_csv")
                         /\ Get(ret.value, "timestamp", None) = Get(csv_res, "date", None)

\* C8: a request for a tool name that is absent from the tool map runs no tool
\* and ends the operation with an exception: call_tool itself, and fetch when it
\* requests "google_search" or "csv_loader".
C8_ToolNotFoundIsFatal ==
    /\ (Called /\ arg.op = "call_tool" /\ arg.tool_name \notin tools)
           => ret.raised /\ ret.runs = <<>>
    /\ (Called /\ arg.op = "fetch" /\ "google_search" \notin tools)
           => ret.raised /\ RunsOf("google_search") = <<>>
    /\ (Called /\ arg.op = "fetch" /\ "csv_loader" \notin tools
               /\ ("google_search" \notin tools \/ ~SearchSucceeds(arg.location)))
           => ret.raised /\ RunsOf("csv_loader") = <<>>

-----------------------------------------------------------------------------
(* Properties of main *)

IsPrefix(p, q) == Len(p) <= Len(q) /\ SubSeq(q, 1, Len(p)) = p

\* the end-to-end scenario: Chennai, no asthma, the stub search tool, and no row
\* of the file (if there is one) for Chennai
Scenario ==
    /\ pc \notin {"start", "call", "returned"}
    /\ user_context["location"] = Str("Chennai")
    /\ user_context["preferences"] = [asthma |-> Bool(FALSE)]
    /\ searchMode = "stub"
    /\ \A i \in 1..Len(csvRows) : Lower(csvRows[i]["location"].s) # "chennai"

ScenarioReading ==
    /\ printed["data"]["pm25"] = Flt(860)
    /\ printed["data"]["pm10"] = Flt(1500)
    /\ printed["data"]["aqi"] = Int_(128)
    /\ printed["data"]["source"] = Str("google_search")
    /\ Get(printed["analysis"], "trend", None) = Str("stable")
    /\ Get(printed["analysis"], "confidence", None) = Flt(8)

\* C2 as stated: the scenario yields the reading 86.0 / 150.0 / 128 from
\* "google_search", the analysis stable / 0.8, a summary that contains "poor" and
\* the two outdoor-avoidance warnings.
C2_Original ==
    (Scenario /\ pc = "done") =>
        /\ ScenarioReading
        /\ Contains("poor", printed["explanation"]["summary"].s)
        /\ printed["advice"]["advice"] = <<AvoidExercise, UseMask>>

\* C2 amended: the scenario runs to the end and yields the reading 86.0 / 150.0 /
\* 128 from "google_search" and the analysis stable / 0.8; 86 is not above 100,
\* so the summary ends with the moderate text and contains neither "poor" nor
\* "avoid", and the advisory is the single positive message.
C2_EndToEnd ==
    Scenario =>
        /\ pc \notin {"raised", "aborted"}
        /\ pc = "done" =>
              /\ ScenarioReading
              /\ EndsWith(printed["explanation"]["summary"].s, ModerateText)
              /\ ~Contains("poor", Lower(printed["explanation"]["summary"].s))
              /\ ~Contains("avoid", Lower(printed["explanation"]["summary"].s))
              /\ printed["advice"]["advice"] = <<GoodDay>>

\* the scenario ran to the end over a file that exists and has rows, none for Chennai
C2_Witness ==
    /\ Scenario /\ pc = "done"
    /\ fileExists /\ csvRows # <<>>
    /\ printed["explanation"]["summary"].s
         = "Current PM2.5 is 86.0 ug/m3. Trend: stable. " \o ModerateText

\* the record fetch returned is empty or carries an error
FetchGaveError ==
    /\ dp # NoValue
    /\ DOMAIN dp = {} \/ ("error" \in DOMAIN dp /\ Truthy(dp["error"]))

C9_StepsInOrder ==
    /\ IsPrefix(steps, Pipeline)
    /\ FetchGaveError =>
          /\ pc = "aborted"
          /\ steps = <<"plan", "fetch">>
          /\ analysis = NoValue /\ explanation = NoValue /\ advice = NoValue
          /\ printed = NoValue
          /\ Len(queries) = 1
    /\ pc = "aborted" => FetchGaveError
    /\ pc = "done" => steps = Pipeline /\ printed # NoValue /\ Len(queries) = 2
    /\ printed # NoValue => pc = "done"

C9_LogAppendOnly ==
    /\ IsPrefix(queries, queries')
    /\ Len(queries') <= Len(queries) + 1
    /\ IsPrefix(steps, steps')
    /\ Len(steps') <= Len(steps) + 1

\* C9: the steps of main occur in the order plan, fetch, analyze, explain,
\* advise, each at most once and one at a time; when fetch returns an empty or
\* error record the run stops: no later step runs, nothing is printed and the
\* query log holds the one entry saved before the fetch; a completed run holds
\* two entries; entries are only ever appended.
C9_PipelineOrder == []C9_StepsInOrder /\ [][C9_LogAppendOnly]_vars

\* a run that stopped at the fetch
C9_Witness ==
    /\ pc = "aborted"
    /\ dp = [error |-> Str("no data available")]
    /\ steps = <<"plan", "fetch">>
    /\ Len(queries) = 1

====
